---- MODULE Spec2Model ----
(***************************************************************************)
(* The capture engine of Zeno (internal/pkg/crawl/capture.go): executeGET, *)
(* captureAsset, Capture and deleteTempFile, run by worker tasks over the  *)
(* shared Crawl context (counters, seen-set, temp directory).              *)
(***************************************************************************)
EXTENDS Integers, Sequences, FiniteSets, TLC

VARIABLES
    run,         \* the run: its workers, the items handed to them, the servers' answers
    WARC,        \* c.WARC: archival enabled
    Seencheck,   \* c.Seencheck: deduplication enabled
    Crawled,     \* c.Crawled counter
    QueueCount,  \* c.Frontier.QueueCount counter
    seen,        \* c.Frontier.Seencheck: the hashes marked seen
    files,       \* the temp directory: path -> record, for every path ever handed out
    jobs,        \* running "go c.queueOutlinks(outlinks, item)" goroutines
    queued,      \* the items queueOutlinks has pushed to the frontier
    task         \* the worker tasks: position and locals of Capture and its callees

vars == <<run, WARC, Seencheck, Crawled, QueueCount, seen, files, jobs, queued, task>>

----------------------------------------------------------------------------
(* Bounds of the model *)

MaxRedirect == 1      \* c.MaxRedirect as configured for the run
MaxHops == 3          \* c.MaxHops as configured for the run
MaxAssets == 2        \* longest asset list extractAssets yields

\* the worker tasks; a run starts run.workers of them (c.Workers)
Tasks == {1, 2}

AssetURLs == {"a", "b"}
\* "nr": parses as a URL, but http.NewRequest rejects it; "%": url.Parse rejects it
Locations == {"a", "b", "nr", "%"}
\* one status that is no redirection and one that is
Statuses == {200, 301}
ContentTypes == {"text/html", "image/png"}

NoPath == 0           \* the empty path ""

UserAgent == "Zeno"   \* c.UserAgent

----------------------------------------------------------------------------
(* Items, requests, responses *)

NoItem == [url |-> "", type |-> "nil", hop |-> 0, redirect |-> 0, hash |-> 0]

\* item.Hash: a number per URL string, distinct for the URLs of the model
Hash(u) ==
    CASE u = "a" -> 1
      [] u = "b" -> 2
      [] u = "c" -> 3
      [] u = "p" -> 4
      [] u = "nr" -> 5
      [] OTHER -> 6

\* frontier.NewItem(URL, parentItem, itemType, hop)
NewItem(u, parentItem, itemType, hop) ==
    [url |-> u, type |-> itemType, hop |-> hop, redirect |-> 0,
     hash |-> Hash(u), parent |-> parentItem]

\* url.Parse
ParseOK(u) == u # "%"

\* http.NewRequest("GET", u, nil)
NewRequestOK(u) == u \notin {"nr", "%"}

NewRequest(u) == [url |-> u, ua |-> "", referer |-> ""]

NoReq == [url |-> "", ua |-> "", referer |-> ""]

\* a response: status, Location header, resp.Request.URL, Body closed
NoResp == [status |-> 0, loc |-> "", url |-> "", closed |-> FALSE]

isRedirection(status) == status \in {300, 301, 302, 307, 308}

\* the items the worker pool hands to Capture
ParentPage == NewItem("p", NoItem, "seed", 0)

Items ==
    { NewItem("a", NoItem, "seed", 0),
      NewItem("nr", NoItem, "seed", 0),
      NewItem("a", [ParentPage EXCEPT !.hop = MaxHops - 2], "page", MaxHops - 1),
      NewItem("a", [ParentPage EXCEPT !.hop = MaxHops - 1, !.url = ""], "page", MaxHops) }

OutlinkLists == { <<>>, <<"b", "c">> }

RECURSIVE SeqsUpTo(_, _)
SeqsUpTo(S, n) ==
    IF n = 0 THEN { <<>> }
    ELSE LET shorter == SeqsUpTo(S, n - 1)
         IN  shorter \cup { Append(s, x) : s \in { q \in shorter : Len(q) = n - 1 }, x \in S }

AssetLists == SeqsUpTo(AssetURLs, MaxAssets)

\* how writeWARC fails: it returns no path, or the path of a partial file, or
\* a path whose file it did not keep
WarcFails == {"nopath", "partial", "missing"}

\* what a server may answer: a status and, with a redirection, a Location
Answers ==
    { a \in [status : Statuses, loc : Locations \cup {""}] :
         isRedirection(a.status) <=> a.loc # "" }

\* a run with one worker: every server answers anything
SoloRun ==
    [workers |-> 1, items |-> Items,
     answers |-> [u \in {"a", "b"} |-> Answers],
     outlinks |-> OutlinkLists, assets |-> AssetLists,
     warcFails |-> WarcFails]

\* a run with two workers: both are handed the page a, one hop below
\* MaxHops, which links to c and embeds b twice; a answers 200, b answers 200
\* or redirects to c, c answers 200; a failed archive write leaves a partial
\* file
PairRun ==
    [workers |-> 2,
     items |-> { NewItem("a", [ParentPage EXCEPT !.hop = MaxHops - 2], "page", MaxHops - 1) },
     answers |-> [u \in {"a", "b", "c"} |->
                    IF u = "b"
                    THEN { [status |-> 200, loc |-> ""], [status |-> 301, loc |-> "c"] }
                    ELSE { [status |-> 200, loc |-> ""] }],
     outlinks |-> { <<"c">> },
     assets |-> { <<"b", "b">> },
     warcFails |-> {"partial"}]

----------------------------------------------------------------------------
(* The temp directory *)

\* os.Remove(path) with line 259 never true: a failed removal leaves no trace
RemoveSilent(fs, path) ==
    [fs EXCEPT ![path] = [@ EXCEPT !.live = FALSE, !.dels = @ + 1]]

\* os.Remove(path) inside deleteTempFile: the file goes; removing a path that
\* holds no file fails, and the failure is logged only
Remove(fs, path) ==
    [fs EXCEPT ![path] = [@ EXCEPT !.live = FALSE,
                                   !.dels = @ + 1,
                                   !.fails = @ + (IF fs[path].live THEN 0 ELSE 1)]]

\* deleteTempFile that removes nothing
deleteTempFileNoop(fs, path) == fs

\* deleteTempFile(path)
deleteTempFile(fs, path) ==
    IF path # NoPath THEN Remove(fs, path) ELSE fs

\* the paths writeWARC has handed to task t
OwnedBy(t) == { p \in DOMAIN files : files[p].owner = t }

\* the path writeWARC hands out next, to task t: a name no other file has
NewPath(t) == Cardinality(Tasks) * Cardinality(OwnedBy(t)) + t

\* the temp directory with one more file
Create(fs, path, file) == [p \in DOMAIN fs \cup {path} |-> IF p = path THEN file ELSE fs[p]]

----------------------------------------------------------------------------
(* Initial state *)

IdleTask ==
    [pc |-> "idle",
     \* Capture
     pageItem |-> NoItem, ctype |-> "", base |-> "", assets |-> <<>>, idx |-> 0,
     \* captureAsset / executeGET
     caller |-> "", item |-> NoItem, req |-> NoReq,
     resp |-> NoResp, respPath |-> NoPath, err |-> "",
     \* what the current Capture call has done so far
     chainReqs |-> 0, chainWrites |-> 0, firstStatus |-> 0, pageReqs |-> 0, redirects |-> 0,
     status |-> 0, fetched |-> {}, parses |-> 0, extracts |-> 0, spawned |-> 0,
     assetCalls |-> <<>>, observed |-> 0, warned |-> 0]

Start(r) ==
    /\ run = r
    /\ WARC \in BOOLEAN
    /\ Seencheck \in BOOLEAN
    /\ Crawled = 0
    /\ QueueCount = 0
    /\ seen = {}
    /\ files = <<>>
    /\ jobs = {}
    /\ queued = {}
    /\ task = [t \in Tasks |-> IdleTask]

Init == Start(SoloRun)

PairInit == Start(PairRun)

Set(t, r) == task' = [task EXCEPT ![t] = r]

----------------------------------------------------------------------------
(* executeGET, capture.go:18-77.  The recursion of line 71 only hands the  *)
(* callee's results through (lines 72-76), so one frame is kept: the       *)
(* callee's item and request replace the caller's.                         *)

\* the asset items of the current Capture call whose request went out
Sent(me) ==
    IF me.item.type = "asset" /\ me.item.redirect = 0
    THEN me.fetched \cup {me.item.url} ELSE me.fetched

\* lines 24-34, transport failure of the client chosen: (nil, "", err)
DoFail(t) ==
    LET me == task[t] IN
    /\ me.pc = "do"
    /\ Set(t, [me EXCEPT !.pc = "ret", !.resp = NoResp, !.respPath = NoPath,
                         !.err = "transport",
                         !.chainReqs = @ + 1, !.fetched = Sent(me)])
    /\ UNCHANGED <<run, WARC, Seencheck, Crawled, QueueCount, seen, files, jobs, queued>>

\* lines 24-34, a response arrives
DoResp(t) ==
    LET me == task[t] IN
    /\ me.pc = "do"
    /\ \E answer \in run.answers[me.req.url] :
          /\ Set(t, [me EXCEPT !.pc = "warc",
                               !.resp = [status |-> answer.status,
                                         loc |-> answer.loc,
                                         url |-> me.req.url,
                                         closed |-> FALSE],
                               !.respPath = NoPath, !.err = "",
                               !.firstStatus = IF me.caller = "Capture" /\ me.chainReqs = 0
                                               THEN answer.status ELSE @,
                               !.chainReqs = @ + 1, !.fetched = Sent(me)])
    /\ UNCHANGED <<run, WARC, Seencheck, Crawled, QueueCount, seen, files, jobs, queued>>

\* lines 37-44 with c.WARC false
WarcOff(t) ==
    LET me == task[t] IN
    /\ me.pc = "warc"
    /\ ~WARC
    /\ Set(t, [me EXCEPT !.pc = "redir"])
    /\ UNCHANGED <<run, WARC, Seencheck, Crawled, QueueCount, seen, files, jobs, queued>>

\* lines 37-39, writeWARC succeeds: a temp file holds the body
WarcOK(t) ==
    LET me == task[t] IN
    /\ me.pc = "warc"
    /\ WARC
    /\ files' = Create(files, NewPath(t),
                       [made |-> TRUE, live |-> TRUE, dels |-> 0, fails |-> 0,
                        owner |-> t, archived |-> TRUE])
    /\ Set(t, [me EXCEPT !.pc = "incr", !.respPath = NewPath(t), !.chainWrites = @ + 1])
    /\ UNCHANGED <<run, WARC, Seencheck, Crawled, QueueCount, seen, jobs, queued>>

\* line 43 with the increment left out
CrawledIncrLost(t) ==
    LET me == task[t] IN
    /\ me.pc = "incr"
    /\ Set(t, [me EXCEPT !.pc = "redir"])
    /\ UNCHANGED <<run, WARC, Seencheck, Crawled, QueueCount, seen, files, jobs, queued>>

\* line 43: c.Crawled.Incr(1), one atomic addition
CrawledIncr(t) ==
    LET me == task[t] IN
    /\ me.pc = "incr"
    /\ Crawled' = Crawled + 1
    /\ Set(t, [me EXCEPT !.pc = "redir"])
    /\ UNCHANGED <<run, WARC, Seencheck, QueueCount, seen, files, jobs, queued>>

\* lines 37-42, writeWARC fails
WarcFail(t) ==
    LET me == task[t] IN
    /\ me.pc = "warc"
    /\ WARC
    /\ \E kind \in run.warcFails :
          /\ files' = IF kind = "nopath" THEN files
                       ELSE Create(files, NewPath(t),
                                   [made |-> kind = "partial",
                                    live |-> kind = "partial",
                                    dels |-> 0, fails |-> 0, owner |-> t,
                                    archived |-> FALSE])
          /\ Set(t, [me EXCEPT !.pc = "ret", !.err = "archive",
                               !.resp = [@ EXCEPT !.closed = TRUE],
                               !.respPath = IF kind = "nopath" THEN NoPath ELSE NewPath(t)])
    /\ UNCHANGED <<run, WARC, Seencheck, Crawled, QueueCount, seen, jobs, queued>>

\* line 48 without the redirect budget
StopRedirectSelfOnly(it, rq, rs) ==
    rs.loc = rq.url

\* line 48 with > for >=
StopRedirectLate(it, rq, rs) ==
    rs.loc = rq.url \/ it.redirect > MaxRedirect

\* line 48: a redirect response that is not followed
StopRedirect(it, rq, rs) ==
    rs.loc = rq.url \/ it.redirect >= MaxRedirect

\* lines 57-58
RedirectItem(it, u) ==
    [NewItem(u, it, it.type, it.hop) EXCEPT !.redirect = it.redirect + 1]

\* lines 47-76 without the deleteTempFile of line 69
RedirectKeepsFile(t) ==
    LET me == task[t] IN
    /\ me.pc = "redir"
    /\ IF ~isRedirection(me.resp.status) \/ StopRedirect(me.item, me.req, me.resp)
       THEN Set(t, [me EXCEPT !.pc = "ret", !.err = ""])
       ELSE IF ~ParseOK(me.resp.loc)
       THEN Set(t, [me EXCEPT !.pc = "ret", !.err = "location"])
       ELSE IF ~NewRequestOK(me.resp.loc)
       THEN Set(t, [me EXCEPT !.pc = "ret", !.err = "request"])
       ELSE Set(t, [me EXCEPT !.pc = "do",
                              !.item = RedirectItem(me.item, me.resp.loc),
                              !.req = NewRequest(me.resp.loc),
                              !.resp = NoResp, !.respPath = NoPath])
    /\ UNCHANGED <<run, WARC, Seencheck, Crawled, QueueCount, seen, files, jobs, queued>>

\* lines 47-76 with the deleteTempFile of line 69 before the test of line 48
RedirectDeletesFirst(t) ==
    LET me == task[t] IN
    /\ me.pc = "redir"
    /\ IF ~isRedirection(me.resp.status)
       THEN /\ Set(t, [me EXCEPT !.pc = "ret", !.err = ""])
            /\ UNCHANGED files
       ELSE IF StopRedirect(me.item, me.req, me.resp)
       THEN /\ Set(t, [me EXCEPT !.pc = "ret", !.err = ""])
            /\ files' = deleteTempFile(files, me.respPath)
       ELSE IF ~ParseOK(me.resp.loc)
       THEN /\ Set(t, [me EXCEPT !.pc = "ret", !.err = "location"])
            /\ files' = deleteTempFile(files, me.respPath)
       ELSE IF ~NewRequestOK(me.resp.loc)
       THEN /\ Set(t, [me EXCEPT !.pc = "ret", !.err = "request"])
            /\ files' = deleteTempFile(files, me.respPath)
       ELSE /\ files' = deleteTempFile(files, me.respPath)
            /\ Set(t, [me EXCEPT !.pc = "do",
                                 !.item = RedirectItem(me.item, me.resp.loc),
                                 !.req = NewRequest(me.resp.loc),
                                 !.resp = NoResp, !.respPath = NoPath])
    /\ UNCHANGED <<run, WARC, Seencheck, Crawled, QueueCount, seen, jobs, queued>>

\* lines 47-76
Redirect(t) ==
    LET me == task[t] IN
    /\ me.pc = "redir"
    /\ IF ~isRedirection(me.resp.status) \/ StopRedirect(me.item, me.req, me.resp)
       THEN /\ Set(t, [me EXCEPT !.pc = "ret", !.err = ""])
            /\ UNCHANGED files
       ELSE IF ~ParseOK(me.resp.loc)
       THEN /\ Set(t, [me EXCEPT !.pc = "ret", !.err = "location"])
            /\ UNCHANGED files
       ELSE IF ~NewRequestOK(me.resp.loc)
       THEN /\ Set(t, [me EXCEPT !.pc = "ret", !.err = "request"])
            /\ UNCHANGED files
       ELSE \* lines 66-71: the headers go on req, the request already sent;
            \* newReq is issued as built
            /\ files' = deleteTempFile(files, me.respPath)
            /\ Set(t, [me EXCEPT !.pc = "do",
                                 !.item = RedirectItem(me.item, me.resp.loc),
                                 !.req = NewRequest(me.resp.loc),
                                 !.resp = NoResp, !.respPath = NoPath])
    /\ UNCHANGED <<run, WARC, Seencheck, Crawled, QueueCount, seen, jobs, queued>>

----------------------------------------------------------------------------
(* Capture, capture.go:124-254 *)

\* line 155 letting every Content-Type through
ContainsTextAlways(ct) == TRUE

\* line 155: strings.Contains(resp.Header.Get("Content-Type"), "text/")
ContainsText(ct) == ct \in {"text/html"}

\* lines 137-139
CaptureReferer(it) ==
    IF it.hop > 0 /\ it.parent.url # "" THEN it.parent.url ELSE ""

\* lines 124-141: the worker calls Capture(item)
CaptureStart(t) ==
    LET me == task[t] IN
    /\ me.pc = "idle"
    /\ t <= run.workers
    /\ \E it \in run.items :
          LET fresh == [IdleTask EXCEPT !.pageItem = it] IN
          IF ~NewRequestOK(it.url)
          THEN Set(t, [fresh EXCEPT !.pc = "done", !.warned = 1])
          ELSE Set(t, [fresh EXCEPT !.pc = "do", !.caller = "Capture", !.item = it,
                                    !.req = [NewRequest(it.url) EXCEPT
                                                !.referer = CaptureReferer(it)]])
    /\ UNCHANGED <<run, WARC, Seencheck, Crawled, QueueCount, seen, files, jobs, queued>>

\* lines 141-148 with a second executeGET(item, req) for the return of line 147
CaptureAfterGetRetries(t) ==
    LET me == task[t]
        back == [me EXCEPT !.item = NoItem, !.req = NoReq,
                           !.pageReqs = me.chainReqs,
                           !.redirects = me.item.redirect]
    IN
    /\ me.pc = "ret"
    /\ me.caller = "Capture"
    /\ IF me.err # ""
       THEN /\ files' = deleteTempFile(files, me.respPath)
            /\ Set(t, [me EXCEPT !.pc = "do", !.item = me.pageItem,
                                 !.req = [NewRequest(me.pageItem.url) EXCEPT
                                             !.referer = CaptureReferer(me.pageItem)],
                                 !.resp = NoResp, !.respPath = NoPath, !.err = "",
                                 !.warned = @ + 1])
       ELSE \E ct \in ContentTypes :
               IF ~ContainsText(ct)
               THEN /\ files' = deleteTempFile(files, me.respPath)
                    /\ Set(t, [back EXCEPT !.pc = "done", !.observed = @ + 1,
                                           !.status = me.resp.status, !.ctype = ct])
               ELSE /\ UNCHANGED files
                    /\ Set(t, [back EXCEPT !.pc = "parse", !.observed = @ + 1,
                                           !.status = me.resp.status, !.ctype = ct,
                                           !.base = me.resp.url])
    /\ UNCHANGED <<run, WARC, Seencheck, Crawled, QueueCount, seen, jobs, queued>>

\* lines 141-168: executeGET has returned to Capture.  The Content-Type of
\* the final response is drawn here, where line 155 reads it: nothing else
\* reads it.  The frame of executeGET (item, req) is gone.  url.Parse of
\* line 161 is given the URL of a request that was built, and succeeds.
CaptureAfterGet(t) ==
    LET me == task[t]
        back == [me EXCEPT !.item = NoItem, !.req = NoReq,
                           !.pageReqs = me.chainReqs,
                           !.redirects = me.item.redirect]
    IN
    /\ me.pc = "ret"
    /\ me.caller = "Capture"
    /\ IF me.err # ""
       THEN /\ files' = deleteTempFile(files, me.respPath)
            /\ Set(t, [back EXCEPT !.pc = "done", !.warned = @ + 1])
       ELSE \E ct \in ContentTypes :
               IF ~ContainsText(ct)
               THEN /\ files' = deleteTempFile(files, me.respPath)
                    /\ Set(t, [back EXCEPT !.pc = "done", !.observed = @ + 1,
                                           !.status = me.resp.status, !.ctype = ct])
               ELSE /\ UNCHANGED files
                    /\ Set(t, [back EXCEPT !.pc = "parse", !.observed = @ + 1,
                                           !.status = me.resp.status, !.ctype = ct,
                                           !.base = me.resp.url])
    /\ UNCHANGED <<run, WARC, Seencheck, Crawled, QueueCount, seen, jobs, queued>>

\* lines 170-206: the document comes from the temp file, or with no temp file
\* from the response body
Parse(t) ==
    LET me == task[t] IN
    /\ me.pc = "parse"
    /\ \E outcome \in {"open", "parse", "ok"} :
          /\ outcome = "open" => me.respPath # NoPath
          /\ me.respPath # NoPath /\ ~files[me.respPath].live => outcome = "open"
          /\ files' = deleteTempFile(files, me.respPath)
          /\ Set(t, [me EXCEPT !.pc = IF outcome = "ok" THEN "outlinks" ELSE "done",
                               !.resp = NoResp, !.respPath = NoPath,
                               !.parses = @ + (IF outcome = "open" THEN 0 ELSE 1),
                               !.warned = @ + (IF outcome = "ok" THEN 0 ELSE 1)])
    /\ UNCHANGED <<run, WARC, Seencheck, Crawled, QueueCount, seen, jobs, queued>>

\* line 209 with <= for <
OutlinksWantedUpToMax(it) == it.hop <= MaxHops

\* line 209
OutlinksWanted(it) == it.hop < MaxHops

\* lines 208-218: extractOutlinks, then "go c.queueOutlinks(outlinks, item)"
Outlinks(t) ==
    LET me == task[t] IN
    /\ me.pc = "outlinks"
    /\ IF OutlinksWanted(me.pageItem)
       THEN \/ /\ Set(t, [me EXCEPT !.pc = "done", !.extracts = @ + 1,
                                     !.warned = @ + 1])
               /\ UNCHANGED jobs
            \/ \E outlinks \in run.outlinks :
                  /\ jobs' = jobs \cup {[outlinks |-> outlinks, item |-> me.pageItem,
                                          by |-> t]}
                  /\ Set(t, [me EXCEPT !.pc = "assets", !.extracts = @ + 1,
                                       !.spawned = @ + 1])
       ELSE /\ Set(t, [me EXCEPT !.pc = "assets"])
            /\ UNCHANGED jobs
    /\ UNCHANGED <<run, WARC, Seencheck, Crawled, QueueCount, seen, files, queued>>

\* queueOutlinks(outlinks, item): every outlink becomes a page item one hop
\* further, pushed to the frontier
queueOutlinks(outlinks, item) ==
    { NewItem(outlinks[i], item, "page", item.hop + 1) : i \in 1..Len(outlinks) }

\* the goroutine of line 217 runs
QueueOutlinks ==
    \E j \in jobs :
       /\ queued' = queued \cup queueOutlinks(j.outlinks, j.item)
       /\ jobs' = jobs \ {j}
       /\ UNCHANGED <<run, WARC, Seencheck, Crawled, QueueCount, seen, files, task>>

\* lines 220-229 behind a wait for the goroutine of line 217
AssetsAfterOutlinks(t) ==
    LET me == task[t] IN
    /\ me.pc = "assets"
    /\ \A j \in jobs : j.by # t
    /\ \/ /\ Set(t, [me EXCEPT !.pc = "done", !.extracts = @ + 1, !.warned = @ + 1])
          /\ UNCHANGED QueueCount
       \/ \E assets \in run.assets :
             /\ QueueCount' = QueueCount + Len(assets)
             /\ Set(t, [me EXCEPT !.pc = "loop", !.extracts = @ + 1,
                                  !.assets = assets, !.idx = 1])
    /\ UNCHANGED <<run, WARC, Seencheck, Crawled, seen, files, jobs, queued>>

\* lines 220-229: c.extractAssets, then QueueCount.Incr(len(assets))
Assets(t) ==
    LET me == task[t] IN
    /\ me.pc = "assets"
    /\ \/ /\ Set(t, [me EXCEPT !.pc = "done", !.extracts = @ + 1, !.warned = @ + 1])
          /\ UNCHANGED QueueCount
       \/ \E assets \in run.assets :
             /\ QueueCount' = QueueCount + Len(assets)
             /\ Set(t, [me EXCEPT !.pc = "loop", !.extracts = @ + 1,
                                  !.assets = assets, !.idx = 1])
    /\ UNCHANGED <<run, WARC, Seencheck, Crawled, seen, files, jobs, queued>>

\* line 234 without the comparison
SkipAssetNever(it, asset) == FALSE

\* line 234
SkipAsset(it, asset) == it.url = asset

\* lines 230-239 with the Incr(-1) of line 231 after the continue of line 235
AssetLoopSkipUncounted(t) ==
    LET me == task[t] IN
    /\ me.pc = "loop"
    /\ IF me.idx > Len(me.assets)
       THEN /\ Set(t, [me EXCEPT !.pc = "done"])
            /\ UNCHANGED QueueCount
       ELSE IF SkipAsset(me.pageItem, me.assets[me.idx])
       THEN /\ Set(t, [me EXCEPT !.idx = @ + 1])
            /\ UNCHANGED QueueCount
       ELSE /\ QueueCount' = QueueCount - 1
            /\ Set(t, [me EXCEPT !.pc = "seencheck", !.caller = "captureAsset",
                                 !.item = NewItem(me.assets[me.idx], me.pageItem,
                                                  "asset", me.pageItem.hop),
                                 !.assetCalls = Append(@, me.assets[me.idx])])
    /\ UNCHANGED <<run, WARC, Seencheck, Crawled, seen, files, jobs, queued>>

\* lines 230-239: one turn of the loop over the assets, up to the call of
\* captureAsset; past the last asset Capture returns
AssetLoop(t) ==
    LET me == task[t] IN
    /\ me.pc = "loop"
    /\ IF me.idx > Len(me.assets)
       THEN /\ Set(t, [me EXCEPT !.pc = "done"])
            /\ UNCHANGED QueueCount
       ELSE /\ QueueCount' = QueueCount - 1
            /\ IF SkipAsset(me.pageItem, me.assets[me.idx])
               THEN Set(t, [me EXCEPT !.idx = @ + 1])
               ELSE Set(t, [me EXCEPT !.pc = "seencheck", !.caller = "captureAsset",
                                      !.item = NewItem(me.assets[me.idx], me.pageItem,
                                                       "asset", me.pageItem.hop),
                                      !.assetCalls = Append(@, me.assets[me.idx])])
    /\ UNCHANGED <<run, WARC, Seencheck, Crawled, seen, files, jobs, queued>>

\* Capture, lines 254 and 149: the call returns, the deferred Close runs
CaptureReturn(t) ==
    LET me == task[t] IN
    /\ me.pc = "done"
    /\ Set(t, [me EXCEPT !.pc = "returned"])
    /\ UNCHANGED <<run, WARC, Seencheck, Crawled, QueueCount, seen, files, jobs, queued>>

----------------------------------------------------------------------------
(* captureAsset, capture.go:79-121 *)

\* c.Frontier.Seencheck.IsSeen(hash), line 87
IsSeen(hash) == hash \in seen

\* lines 94-107: the request of the asset; a request that cannot be built
\* returns the error to Capture, which logs it and goes on (lines 240-252)
AssetRequest(me) ==
    IF ~NewRequestOK(me.item.url)
    THEN [me EXCEPT !.pc = "loop", !.caller = "Capture", !.idx = @ + 1,
                    !.item = NoItem, !.warned = @ + 1]
    ELSE [me EXCEPT !.pc = "do", !.chainReqs = 0, !.chainWrites = 0,
                    !.resp = NoResp, !.respPath = NoPath, !.err = "",
                    !.req = [NewRequest(me.item.url) EXCEPT
                                !.referer = me.item.parent.url]]

\* lines 85-90 without the return of line 89
AssetSeencheckIgnoresFound(t) ==
    LET me == task[t] IN
    /\ me.pc = "seencheck"
    /\ IF Seencheck
       THEN Set(t, [me EXCEPT !.pc = "mark"])
       ELSE Set(t, AssetRequest(me))
    /\ UNCHANGED <<run, WARC, Seencheck, Crawled, QueueCount, seen, files, jobs, queued>>

\* lines 85-90: the seen-set is read
AssetSeencheck(t) ==
    LET me == task[t] IN
    /\ me.pc = "seencheck"
    /\ IF Seencheck
       THEN IF IsSeen(me.item.hash)
            THEN Set(t, [me EXCEPT !.pc = "loop", !.caller = "Capture", !.idx = @ + 1,
                                   !.item = NoItem])
            ELSE Set(t, [me EXCEPT !.pc = "mark"])
       ELSE Set(t, AssetRequest(me))
    /\ UNCHANGED <<run, WARC, Seencheck, Crawled, QueueCount, seen, files, jobs, queued>>

\* lines 91-107 with the Seen call of line 91 after executeGET
AssetMarkLate(t) ==
    LET me == task[t] IN
    /\ me.pc = "mark"
    /\ Set(t, AssetRequest(me))
    /\ UNCHANGED <<run, WARC, Seencheck, Crawled, QueueCount, seen, files, jobs, queued>>

\* line 91: the hash is marked seen, then the request is built
AssetMark(t) ==
    LET me == task[t] IN
    /\ me.pc = "mark"
    /\ seen' = seen \cup {me.item.hash}
    /\ Set(t, AssetRequest(me))
    /\ UNCHANGED <<run, WARC, Seencheck, Crawled, QueueCount, files, jobs, queued>>

\* lines 240-252 with a return for the continue of line 251
AssetAfterGetAborts(t) ==
    LET me == task[t] IN
    /\ me.pc = "ret"
    /\ me.caller = "captureAsset"
    /\ files' = deleteTempFile(files, me.respPath)
    /\ Set(t, [me EXCEPT !.pc = IF me.err = "" THEN "loop" ELSE "done",
                         !.caller = "Capture",
                         !.idx = @ + (IF me.err = "" THEN 1 ELSE 0),
                         !.item = NoItem, !.req = NoReq, !.resp = NoResp,
                         !.respPath = NoPath, !.err = "", !.chainReqs = 0, !.chainWrites = 0,
                         !.observed = @ + (IF me.err = "" THEN 1 ELSE 0),
                         !.warned = @ + (IF me.err = "" THEN 0 ELSE 1)])
    /\ UNCHANGED <<run, WARC, Seencheck, Crawled, QueueCount, seen, jobs, queued>>

\* lines 107-120 with the deleteTempFile calls of lines 109 and 116 put off
AssetAfterGetLeavesFile(t) ==
    LET me == task[t] IN
    /\ me.pc = "ret"
    /\ me.caller = "captureAsset"
    /\ Set(t, [me EXCEPT !.pc = "loop", !.caller = "Capture", !.idx = @ + 1,
                         !.item = NoItem, !.req = NoReq, !.resp = NoResp,
                         !.respPath = NoPath, !.err = "", !.chainReqs = 0, !.chainWrites = 0,
                         !.observed = @ + (IF me.err = "" THEN 1 ELSE 0),
                         !.warned = @ + (IF me.err = "" THEN 0 ELSE 1)])
    /\ UNCHANGED <<run, WARC, Seencheck, Crawled, QueueCount, seen, files, jobs, queued>>

\* lines 107-120: executeGET has returned to captureAsset, which returns to
\* the loop of Capture (lines 239-252)
AssetAfterGet(t) ==
    LET me == task[t] IN
    /\ me.pc = "ret"
    /\ me.caller = "captureAsset"
    /\ files' = deleteTempFile(files, me.respPath)
    /\ Set(t, [me EXCEPT !.pc = "loop", !.caller = "Capture", !.idx = @ + 1,
                         !.item = NoItem, !.req = NoReq, !.resp = NoResp,
                         !.respPath = NoPath, !.err = "", !.chainReqs = 0, !.chainWrites = 0,
                         !.observed = @ + (IF me.err = "" THEN 1 ELSE 0),
                         !.warned = @ + (IF me.err = "" THEN 0 ELSE 1)])
    /\ UNCHANGED <<run, WARC, Seencheck, Crawled, QueueCount, seen, jobs, queued>>

----------------------------------------------------------------------------

\* one step of the task running Capture
TaskStep(t) ==
    \/ CaptureStart(t)
    \/ DoFail(t)
    \/ DoResp(t)
    \/ WarcOff(t)
    \/ WarcOK(t)
    \/ CrawledIncr(t)
    \/ WarcFail(t)
    \/ Redirect(t)
    \/ CaptureAfterGet(t)
    \/ Parse(t)
    \/ Outlinks(t)
    \/ Assets(t)
    \/ AssetLoop(t)
    \/ AssetSeencheck(t)
    \/ AssetMark(t)
    \/ AssetAfterGet(t)
    \/ CaptureReturn(t)

Next ==
    \/ QueueOutlinks
    \/ \E t \in Tasks : TaskStep(t)

Spec == Init /\ [][Next]_vars

\* Every call blocks its task until it returns (the HTTP client has a
\* timeout), and goroutines are scheduled: a step that can be taken is taken.
FairSpec ==
    Spec /\ WF_vars(QueueOutlinks) /\ \A t \in Tasks : WF_vars(TaskStep(t))

\* The same with no assumption on the goroutines of line 217: they may
\* never run.
WorkerFairSpec ==
    Spec /\ \A t \in Tasks : WF_vars(TaskStep(t))

\* two workers run Capture side by side
PairSpec == PairInit /\ [][Next]_vars

----------------------------------------------------------------------------
(* Temp files *)

\* every temp file task t was handed is gone, after one deleteTempFile
AllDeleted(t) ==
    \A p \in OwnedBy(t) : files[p].made => ~files[p].live /\ files[p].dels = 1

\* C1: when Capture or captureAsset has returned (Capture is done, or the
\* asset loop has the control back), every temp file an archive write of the
\* call created has been deleted, and deleteTempFile was called on no path
\* more than once.
C1_TempFilesDeletedOnce ==
    /\ \A p \in DOMAIN files : files[p].dels <= 1
    /\ \A t \in Tasks :
          task[t].pc \in {"loop", "done", "returned"} => AllDeleted(t)

\* a Capture that archived a page and two asset hops, one of them a followed
\* redirect or a failed write, has returned
C1_Witness ==
    \E t \in Tasks :
       /\ task[t].pc = "done"
       /\ Len(task[t].assetCalls) = 1
       /\ Cardinality({ p \in OwnedBy(t) : files[p].made }) >= 3

----------------------------------------------------------------------------
(* Redirect chains *)

InChain(t) == task[t].pc \in {"do", "warc", "incr", "redir"}

\* the requests of the chain so far: one per item, the current one included
\* once it is sent
ChainShape(t) ==
    LET me == task[t] IN
    /\ me.chainReqs <= MaxRedirect + 1
    /\ InChain(t) =>
          /\ me.item.redirect <= MaxRedirect
          /\ me.chainReqs = me.item.redirect + (IF me.pc = "do" THEN 0 ELSE 1)
          /\ me.item.redirect > 0 =>
                me.item.redirect = me.item.parent.redirect + 1

\* C2: a call of executeGET that starts at redirect count 0 returns, whatever
\* the server answers; every item of its chain has the redirect count of its
\* predecessor plus one, at most MaxRedirect; and the chain issues at most
\* MaxRedirect + 1 requests.
C2_RedirectBudget ==
    /\ [](\A t \in Tasks : ChainShape(t))
    /\ \A t \in Tasks : (task[t].pc = "do") ~> (task[t].pc = "ret")

\* the budget is used up: the request of the last item allowed is out
C2_Witness ==
    \E t \in Tasks :
       /\ task[t].pc = "warc"
       /\ task[t].item.redirect = MaxRedirect
       /\ task[t].chainReqs = MaxRedirect + 1
       /\ isRedirection(task[t].resp.status)
       /\ task[t].resp.loc # task[t].req.url

\* C3: a redirect response that executeGET does not follow (its Location is
\* the URL just requested, or the item's redirect count has reached
\* MaxRedirect) is returned as it is with a nil error, and its archive, when
\* archival is on, is returned undeleted.
C3_UnfollowedRedirectReturned ==
    [][\A t \in Tasks :
         LET me == task[t]
             nx == task'[t]
         IN  ( /\ me.pc = "redir"
               /\ isRedirection(me.resp.status)
               /\ me.resp.loc = me.req.url \/ me.item.redirect >= MaxRedirect
               /\ nx # me )
             => /\ nx.pc = "ret"
                /\ nx.err = ""
                /\ nx.resp = me.resp
                /\ nx.respPath = me.respPath
                /\ files' = files
                /\ IF WARC
                   THEN /\ me.respPath # NoPath
                        /\ files[me.respPath].live
                        /\ files[me.respPath].dels = 0
                   ELSE me.respPath = NoPath
      ]_vars

\* MaxRedirect redirects were followed and one more redirect, to yet another
\* URL, is the result of the chain
C3_Witness ==
    \E t \in Tasks :
       /\ task[t].pc = "ret"
       /\ task[t].err = ""
       /\ isRedirection(task[t].resp.status)
       /\ task[t].resp.loc # task[t].req.url
       /\ task[t].item.redirect = MaxRedirect
       /\ MaxRedirect >= 1
       /\ task[t].respPath # NoPath
       /\ files[task[t].respPath].live

LiveOf(t) == { p \in OwnedBy(t) : files[p].live }

\* C4: the request of a hop goes out only after every earlier hop of the
\* chain was answered, archived (when archival is on) and had its temp file
\* deleted; a task never holds two undeleted temp files.
C4_HopsInOrder ==
    \A t \in Tasks :
       LET me == task[t] IN
       /\ Cardinality(LiveOf(t)) <= 1
       /\ me.pc = "do" =>
             /\ LiveOf(t) = {}
             /\ me.chainReqs = me.item.redirect
             /\ WARC => me.chainWrites = me.item.redirect

\* the second hop of an archived chain is about to be requested
C4_Witness ==
    \E t \in Tasks :
       /\ WARC
       /\ task[t].pc = "do"
       /\ task[t].item.redirect = 1
       /\ task[t].chainWrites = 1
       /\ \E p \in OwnedBy(t) : files[p].made /\ files[p].dels = 1

----------------------------------------------------------------------------
(* captureAsset and the content-type gate *)

\* C5: with deduplication on, a captureAsset call that starts on an item
\* whose hash is in the seen-set returns nil to the asset loop at once: no
\* request, no archive write, no change of the crawled counter, no success
\* observation.
C5_SeenAssetSkipped ==
    [][\A t \in Tasks :
         LET me == task[t]
             nx == task'[t]
         IN  ( /\ me.pc = "seencheck"
               /\ Seencheck
               /\ me.item.hash \in seen
               /\ nx # me )
             => /\ nx.pc = "loop"
                /\ nx.idx = me.idx + 1
                /\ nx.warned = me.warned
                /\ nx.observed = me.observed
                /\ nx.fetched = me.fetched
                /\ nx.chainReqs = me.chainReqs
                /\ files' = files
                /\ Crawled' = Crawled
                /\ seen' = seen
      ]_vars

\* the page listed the asset b twice: the first call fetched it, the second
\* returned without a fetch, an observation or a warning
C5_Witness ==
    \E t \in Tasks :
       /\ Seencheck
       /\ task[t].pc = "loop"
       /\ task[t].idx = 3
       /\ task[t].assetCalls = <<"b", "b">>
       /\ task[t].fetched = {"b"}
       /\ task[t].observed = 2
       /\ task[t].warned = 0

Finished(t) == task[t].pc \in {"done", "returned"}

\* C6: a page whose final response has a Content-Type without "text/" is
\* archived (when archival is on) and observed as a success, and Capture
\* returns with its temp file deleted, having parsed nothing, extracted no
\* outlinks and no assets, scheduled nothing and captured no asset.
C6_NonTextNotScraped ==
    \A t \in Tasks :
       LET me == task[t] IN
       (Finished(t) /\ me.ctype = "image/png") =>
          /\ me.observed = 1
          /\ me.parses = 0
          /\ me.extracts = 0
          /\ me.spawned = 0
          /\ \A j \in jobs : j.by # t
          /\ me.assetCalls = <<>>
          /\ me.fetched = {}
          /\ AllDeleted(t)
          /\ IF WARC
             THEN /\ me.respPath # NoPath
                  /\ files[me.respPath].made
                  /\ files[me.respPath].dels = 1
             ELSE me.respPath = NoPath

\* an archived image/png page: Capture is done
C6_Witness ==
    \E t \in Tasks :
       /\ WARC
       /\ task[t].pc = "done"
       /\ task[t].ctype = "image/png"
       /\ task[t].status = 200
       /\ task[t].respPath # NoPath
       /\ ~files[task[t].respPath].live

Range(q) == { q[i] : i \in 1..Len(q) }

\* C7: an extracted asset whose URL is the URL of the page item is never
\* handed to captureAsset and never requested, and the other assets of the
\* page are captured all the same.
C7_SelfAssetSkipped ==
    \A t \in Tasks :
       LET me == task[t] IN
       /\ me.pageItem.url \notin Range(me.assetCalls)
       /\ me.pageItem.url \notin me.fetched
       /\ (Finished(t) /\ me.idx > 0) =>
             \A i \in 1..Len(me.assets) :
                me.assets[i] # me.pageItem.url => me.assets[i] \in Range(me.assetCalls)

\* page a listed itself and b: only b was captured
C7_Witness ==
    \E t \in Tasks :
       /\ task[t].pc = "done"
       /\ task[t].pageItem.url = "a"
       /\ task[t].assets = <<"a", "b">>
       /\ task[t].assetCalls = <<"b">>
       /\ task[t].fetched = {"b"}

----------------------------------------------------------------------------
(* Outlinks and assets of a page *)

\* the items the Capture call of task t has handed to queueOutlinks, queued
\* by now or not
ScheduledFor(t) ==
    { q \in queued : q.parent = task[t].pageItem }
      \cup UNION { queueOutlinks(j.outlinks, j.item) : j \in { k \in jobs : k.by = t } }

\* C8: Capture of a page item at hop 2 with MaxHops = 3, answered by a 301
\* and then by a 200 text/html page with two outlinks and one asset that is
\* the URL of that final page, follows exactly one redirect, schedules
\* exactly the two outlinks as page items at hop 3, and never calls
\* captureAsset.
C8_RedirectedPageSkipsItself ==
    \A t \in Tasks :
       LET me == task[t] IN
       ( /\ MaxHops = 3
         /\ me.pc = "done"
         /\ me.pageItem.hop = 2
         /\ me.firstStatus = 301
         /\ me.pageReqs = 2
         /\ me.status = 200
         /\ me.ctype = "text/html"
         /\ me.spawned = 1
         /\ Cardinality(ScheduledFor(t)) = 2
         /\ me.assets = <<me.base>>
         /\ me.idx = 2 )
       => /\ me.redirects = 1
          /\ \A q \in ScheduledFor(t) : q.type = "page" /\ q.hop = 3
          /\ me.assetCalls = <<>>

\* the assets among the first k extracted that are not the page item's URL
Captured(assets, k, page) ==
    SelectSeq(SubSeq(assets, 1, k), LAMBDA a : a # page)

\* how many of the extracted assets the loop of task t has reached
Processed(t) ==
    LET me == task[t] IN
    IF me.pc = "loop" THEN me.idx - 1
    ELSE IF me.caller = "captureAsset" THEN me.idx
    ELSE IF Finished(t) /\ me.idx > 0 THEN Len(me.assets)
    ELSE 0

\* C9: captureAsset is called once for each extracted asset that is not the
\* page item's URL, in the order of extraction, whichever of the captures
\* fail: Capture returns from the loop only past the last asset.
C9_EveryAssetCapturedInOrder ==
    \A t \in Tasks :
       LET me == task[t] IN
       /\ me.assetCalls = Captured(me.assets, Processed(t), me.pageItem.url)
       /\ (Finished(t) /\ me.idx > 0) => me.idx = Len(me.assets) + 1

\* without deduplication, the capture of the first of two assets failed and
\* captureAsset is called for the second
C9_Witness ==
    \E t \in Tasks :
       /\ ~Seencheck
       /\ task[t].pc = "seencheck"
       /\ task[t].idx = 2
       /\ task[t].assetCalls = <<"b", "b">>
       /\ task[t].observed = 1
       /\ task[t].warned = 1

\* C10: outlinks are handed to queueOutlinks only by a page below MaxHops, so
\* every scheduled item is one hop further than its parent and at most at
\* MaxHops; the items executeGET and the asset loop derive keep the hop of
\* the page item; a page at MaxHops schedules nothing and still has its
\* assets captured.
C10_HopsBounded ==
    /\ \A j \in jobs : j.item.hop < MaxHops
    /\ \A q \in queued : q.hop = q.parent.hop + 1 /\ q.hop <= MaxHops
    /\ \A t \in Tasks :
          LET me == task[t] IN
          /\ me.item # NoItem => me.item.hop = me.pageItem.hop
          /\ me.spawned > 0 => me.pageItem.hop < MaxHops
          /\ (me.pageItem.hop = MaxHops /\ Finished(t) /\ me.idx > 0) =>
                me.assetCalls = Captured(me.assets, Len(me.assets), me.pageItem.url)

\* a page at MaxHops has scheduled nothing and the chain of its second asset
\* is at a redirect hop, still at MaxHops
C10_Witness ==
    \E t \in Tasks :
       /\ task[t].pageItem.hop = MaxHops
       /\ task[t].spawned = 0
       /\ task[t].pc = "do"
       /\ task[t].item.type = "asset"
       /\ task[t].item.redirect = 1
       /\ task[t].item.hop = MaxHops
       /\ task[t].idx = 2

----------------------------------------------------------------------------
(* Failures *)

\* the Capture call of task t ended before the asset loop
PageStopped(t) == Finished(t) /\ task[t].idx = 0

\* what a finished Capture call has done
CaptureOutcome(t) ==
    LET me == task[t] IN
    /\ me.pageReqs \in {0, me.redirects + 1}
    /\ me.pageReqs = 0 => me.warned = 1 /\ me.observed = 0
    /\ PageStopped(t) =>
          /\ me.warned <= 1
          /\ me.observed <= 1
          /\ me.warned = 0 => me.ctype = "image/png"
          /\ me.assetCalls = <<>> /\ me.fetched = {}
    /\ ~PageStopped(t) =>
          /\ me.idx = Len(me.assets) + 1
          /\ me.observed >= 1
          /\ me.warned + me.observed - 1 <= Len(me.assetCalls)
          /\ Cardinality(me.fetched) <= Len(me.assetCalls)
    /\ AllDeleted(t)

\* C11: every Capture call returns, whichever of its steps fail; it has sent
\* one request per hop of the page's redirect chain and none again; a failure
\* of the page ends the call with one warning and no asset captured; a
\* failure of an asset is one warning, and the loop still reaches the last
\* asset.
C11_CaptureAlwaysReturns ==
    /\ [](\A t \in Tasks : Finished(t) => CaptureOutcome(t))
    /\ \A t \in Tasks : (task[t].pc # "idle") ~> (task[t].pc = "returned")

\* the page was captured and both its assets failed: Capture has returned
C11_Witness ==
    \E t \in Tasks :
       /\ task[t].pc = "returned"
       /\ task[t].observed = 1
       /\ task[t].warned = 2
       /\ ~Seencheck
       /\ task[t].assetCalls = <<"b", "b">>
       /\ task[t].fetched = {"b"}

----------------------------------------------------------------------------
(* The items and requests of a redirect chain *)

\* C12: the request executeGET issues for a followed redirect carries the
\* configured User-Agent header and a Referer header.
C12_RedirectRequestHeaders ==
    \A t \in Tasks :
       LET me == task[t] IN
       (InChain(t) /\ me.item.redirect > 0) =>
          /\ me.req.ua = UserAgent
          /\ me.req.referer # ""

\* C13: the item executeGET derives for a followed redirect has the parent,
\* the type and the hop count of the current item and its redirect count plus
\* one, and the item Capture was called with is left as it was.
C13_RedirectItemKeepsParent ==
    [][\A t \in Tasks :
         LET me == task[t]
             nx == task'[t]
         IN  (me.pc = "redir" /\ nx.pc = "do")
             => /\ nx.item.parent = me.item.parent
                /\ nx.item.type = me.item.type
                /\ nx.item.hop = me.item.hop
                /\ nx.item.redirect = me.item.redirect + 1
                /\ nx.pageItem = me.pageItem
      ]_vars

----------------------------------------------------------------------------
(* The crawled counter *)

\* the archive writes that have succeeded so far
Archived == { p \in DOMAIN files : files[p].archived }

\* the tasks between a successful writeWARC and the Crawled.Incr after it
Counting == { t \in Tasks : task[t].pc = "incr" }

\* a transport failure and an archive failure return at once, uncounted
FailureUncounted ==
    \A t \in Tasks :
       LET me == task[t]
           nx == task'[t]
       IN  /\ (me.pc = "do" /\ nx.err = "transport")
              => /\ nx.pc = "ret"
                 /\ nx.respPath = NoPath
                 /\ files' = files
                 /\ Crawled' = Crawled
           /\ (me.pc = "warc" /\ nx.err = "archive")
              => /\ nx.pc = "ret"
                 /\ nx.resp.closed
                 /\ nx.item = me.item /\ nx.chainReqs = me.chainReqs
                 /\ Archived' = Archived
                 /\ Crawled' = Crawled

\* C14 as stated: in every state the crawled counter is the number of archive
\* writes that have succeeded so far, over all tasks.
C14_CrawledIsArchiveWrites ==
    Crawled = Cardinality(Archived)

\* C14, amended: the crawled counter is the number of archive writes that
\* have succeeded minus the tasks that are between their write and its
\* increment, so it is never above the number of writes and equals it when no
\* task is in between; a transport failure writes and counts nothing, an
\* archive failure closes the body, returns the error, follows no redirect
\* and counts nothing; no increment of either task is lost.
C14_CrawledIsCountedWrites ==
    /\ [](Crawled = Cardinality(Archived) - Cardinality(Counting))
    /\ [][FailureUncounted]_vars

\* both workers have archived a hop: one has counted it, the other is about to
C14_Witness ==
    \E t, u \in Tasks :
       /\ task[t].pc = "redir"
       /\ task[u].pc = "incr"
       /\ Crawled = 1
       /\ Cardinality(Archived) = 2

----------------------------------------------------------------------------
(* Outlink scheduling *)

\* the goroutines task t has started that have not run yet
Unqueued(t) == { j \in jobs : j.by = t }

\* handing the outlinks over starts a goroutine and queues nothing itself
OutlinksHandedOver ==
    \A t \in Tasks :
       LET me == task[t]
           nx == task'[t]
       IN  (me.pc = "outlinks" /\ nx.spawned > me.spawned)
           => /\ nx.pc = "assets"
              /\ queued' = queued
              /\ \E j \in jobs' : j.by = t /\ j.item = me.pageItem

\* C15: Capture hands the outlinks to a goroutine of their own and goes on:
\* whether or not that goroutine ever runs, Capture captures its assets and
\* returns.
C15_OutlinksNotAwaited ==
    /\ [][OutlinksHandedOver]_vars
    /\ \A t \in Tasks :
          (task[t].spawned > 0 /\ task[t].pc = "assets") ~> (task[t].pc = "returned")

\* Capture has captured an asset and returned, and the two outlinks it
\* scheduled are not queued yet
C15_Witness ==
    \E t \in Tasks :
       /\ task[t].pc = "returned"
       /\ task[t].spawned = 1
       /\ task[t].observed = 2
       /\ \E j \in Unqueued(t) : Len(j.outlinks) = 2
       /\ queued = {}

----------------------------------------------------------------------------
(* The asset captures of a page *)

\* task t is inside captureAsset
InAsset(t) == task[t].caller = "captureAsset"

\* the exchange of task t is the one of the asset its loop has reached, and
\* nothing of the captures before it is left
OneAssetExchange(t) ==
    LET me == task[t] IN
    /\ me.idx \in 1..Len(me.assets)
    /\ me.item.type = "asset"
    /\ me.item.redirect = 0 => me.item.url = me.assets[me.idx]
    /\ me.assetCalls[Len(me.assetCalls)] = me.assets[me.idx]
    /\ LiveOf(t) \subseteq {me.respPath}
    /\ \A p \in OwnedBy(t) \ {me.respPath} : files[p].made => files[p].dels = 1
    /\ me.chainReqs <= me.item.redirect + 1
    /\ (me.pc = "do" /\ me.item.redirect = 0) =>
          me.chainReqs = 0 /\ me.chainWrites = 0 /\ LiveOf(t) = {}

\* C16: a Capture task has one asset exchange in flight at most: the request
\* of an asset goes out only after the capture of the asset before it has
\* returned, its redirect chain ended and its temp files deleted.  The asset
\* captures of two tasks run side by side.
C16_AssetsOneAtATime ==
    \A t \in Tasks : InAsset(t) => OneAssetExchange(t)

\* one task requests its second asset while the other is in the redirect
\* chain of an asset
C16_Witness ==
    \E t, u \in Tasks :
       /\ InAsset(t) /\ task[t].pc = "do" /\ task[t].idx = 2
       /\ InAsset(u) /\ task[u].pc = "do" /\ task[u].item.redirect = 1
       /\ t # u
       /\ WARC

----------------------------------------------------------------------------
(* deleteTempFile *)

\* deleteTempFile as a function of the temp directory: nothing for the empty
\* path; for a path, one removal, which fails and is logged when the file is
\* not there, as it is on a second call
DeleteOnce ==
    /\ deleteTempFile(files, NoPath) = files
    /\ \A p \in DOMAIN files :
          LET once == deleteTempFile(files, p)
              twice == deleteTempFile(once, p)
          IN  /\ DOMAIN once = DOMAIN files
              /\ \A q \in DOMAIN files \ {p} : once[q] = files[q]
              /\ ~once[p].live
              /\ once[p].dels = files[p].dels + 1
              /\ once[p].fails = files[p].fails + (IF files[p].live THEN 0 ELSE 1)
              /\ ~twice[p].live
              /\ twice[p].dels = once[p].dels + 1
              /\ twice[p].fails = once[p].fails + 1

\* a deletion of this step failed
DeleteFailed == \E p \in DOMAIN files : files'[p].fails > files[p].fails

\* the callers go on after a failed deletion as after any other, and with the
\* empty path in hand leave the temp directory alone
DeleteOnlyLogged ==
    \A t \in Tasks :
       LET me == task[t]
           nx == task'[t]
       IN  /\ (nx # me /\ DeleteFailed)
              => /\ me.pc = "ret" /\ me.err = "archive"
                 /\ nx.pc = (IF me.caller = "captureAsset" THEN "loop" ELSE "done")
                 /\ nx.idx = me.idx + (IF me.caller = "captureAsset" THEN 1 ELSE 0)
                 /\ nx.warned = me.warned + 1
                 /\ nx.observed = me.observed
                 /\ nx.assets = me.assets /\ nx.assetCalls = me.assetCalls
                 /\ Crawled' = Crawled /\ QueueCount' = QueueCount /\ seen' = seen
           /\ (nx # me /\ me.pc \in {"ret", "redir", "parse"} /\ me.respPath = NoPath)
              => files' = files

\* C17: deleteTempFile with the empty path touches nothing and reports
\* nothing; with a path it attempts one removal; a removal that fails, as a
\* second one of the same path does, is logged and nothing more: the caller
\* goes on as it would have.
C17_DeleteFailureOnlyLogged ==
    /\ []DeleteOnce
    /\ [][DeleteOnlyLogged]_vars

\* the archive write of the first asset failed and left no file at the path
\* it returned: the deletion failed, and the loop is at the second asset
C17_Witness ==
    \E t \in Tasks :
       /\ task[t].pc = "loop"
       /\ task[t].idx = 2
       /\ Len(task[t].assets) = 2
       /\ task[t].warned = 1
       /\ \E p \in OwnedBy(t) : ~files[p].made /\ files[p].dels = 1 /\ files[p].fails = 1

----------------------------------------------------------------------------
(* The pending-discovery counter *)

\* what the Capture call of task t has added to QueueCount and not taken
\* back: the extracted assets its loop has not reached
Pending(t) ==
    LET me == task[t] IN
    IF me.pc \in {"idle", "returned"} \/ me.idx = 0 THEN 0
    ELSE Len(me.assets) - Processed(t)

RECURSIVE SumPending(_)
SumPending(T) ==
    IF T = {} THEN 0
    ELSE LET t == CHOOSE x \in T : TRUE IN Pending(t) + SumPending(T \ {t})

\* C18: QueueCount is the sum of what the running Capture calls have pending,
\* each of them between zero and the number of assets it extracted and zero
\* once the call is done: every asset lowers the counter once, skipped,
\* failed or captured.
C18_QueueCountBalanced ==
    /\ QueueCount = SumPending(Tasks)
    /\ \A t \in Tasks :
          /\ Pending(t) \in 0..Len(task[t].assets)
          /\ Finished(t) => Pending(t) = 0

\* a page that listed itself and an asset whose capture failed: the call is
\* done and the counter is back at zero
C18_Witness ==
    \E t \in Tasks :
       /\ task[t].pc = "done"
       /\ task[t].assets = <<"a", "b">>
       /\ task[t].pageItem.url = "a"
       /\ task[t].assetCalls = <<"b">>
       /\ task[t].warned = 1
       /\ QueueCount = 0

----------------------------------------------------------------------------
(* The seen-set *)

\* the hash of the item the captureAsset call of task t was given
CallHash(t) == Hash(task[t].assets[task[t].idx])

\* task t is past line 91 of a captureAsset call
PastMark(t) ==
    InAsset(t) /\ task[t].pc \in {"do", "warc", "incr", "redir", "ret"}

\* the reads and the write of the seen-set by captureAsset
SeenSteps ==
    /\ seen \subseteq seen'
    /\ \A t \in Tasks :
          LET me == task[t]
              nx == task'[t]
          IN  /\ (me.pc = "seencheck" /\ Seencheck /\ nx # me)
                 => IF CallHash(t) \in seen
                    THEN nx.pc = "loop" /\ nx.fetched = me.fetched /\ nx.err = ""
                    ELSE nx.pc = "mark" /\ seen' = seen
              /\ (me.pc = "mark" /\ nx # me)
                 => CallHash(t) \in seen'
              /\ (PastMark(t) /\ nx.pc = "loop")
                 => (Seencheck => CallHash(t) \in seen')

\* C19: with deduplication on, the hash of an asset is in the seen-set before
\* its first request goes out and stays there, whether the fetch succeeds or
\* fails, so a later captureAsset call for the hash returns at once without
\* a fetch; a call fetches only if it read the seen-set before the hash was
\* written.
C19_SeenBeforeFetch ==
    /\ [](Seencheck => \A t \in Tasks : PastMark(t) => CallHash(t) \in seen)
    /\ [](~Seencheck => seen = {})
    /\ [][SeenSteps]_vars

\* both workers read the seen-set before either wrote b and both fetched b;
\* the fetch of one failed, and its second call for b returned without a fetch
C19_Witness ==
    \E t, u \in Tasks :
       /\ Seencheck
       /\ t # u
       /\ task[t].pc = "done" /\ task[u].pc = "done"
       /\ task[t].fetched = {"b"} /\ task[u].fetched = {"b"}
       /\ task[t].assetCalls = <<"b", "b">>
       /\ task[t].observed = 1 /\ task[t].warned = 1
       /\ Hash("b") \in seen

----------------------------------------------------------------------------
(* Use of the temp files *)

\* the path of the file writeWARC made last for task t
LastPath(t) == Cardinality(Tasks) * (Cardinality(OwnedBy(t)) - 1) + t

\* what executeGET returns with a nil error
ReturnedArchive(t) ==
    LET me == task[t] IN
    (me.pc = "ret" /\ me.err = "") =>
       IF WARC
       THEN /\ me.respPath = LastPath(t)
            /\ files[me.respPath].archived
            /\ files[me.respPath].live
            /\ files[me.respPath].dels = 0
            /\ ~me.resp.closed
       ELSE me.respPath = NoPath /\ ~me.resp.closed

\* Capture makes the document from the temp file, which is there, and
\* deletes it then; with no temp file it reads the body of the response
DocumentFromLiveSource ==
    \A t \in Tasks :
       LET me == task[t]
           nx == task'[t]
       IN  (me.pc = "parse" /\ nx # me)
           => /\ me.parses = 0
              /\ nx.parses <= 1
              /\ IF me.respPath # NoPath
                 THEN /\ WARC
                      /\ files[me.respPath].live /\ files[me.respPath].dels = 0
                      /\ ~files'[me.respPath].live /\ files'[me.respPath].dels = 1
                 ELSE /\ ~WARC
                      /\ nx.parses = 1
                      /\ me.resp.status # 0 /\ ~me.resp.closed
                      /\ files' = files

\* C20: a path executeGET returns with a nil error is the archive of the
\* response it returns, not deleted; Capture parses a temp file once at most,
\* while the file is there, and deletes it after; with archival off there is
\* no path on any hop, no deletion, and the document is read from the open
\* response body.
C20_NoUseAfterDelete ==
    /\ [](\A t \in Tasks : ReturnedArchive(t))
    /\ [](~WARC => DOMAIN files = {} /\ \A t \in Tasks : task[t].respPath = NoPath)
    /\ [][DocumentFromLiveSource]_vars

\* an archived page reached through a redirect was parsed from the temp file
\* of its final response: the file of each hop is deleted, once
C20_Witness ==
    \E t \in Tasks :
       /\ WARC
       /\ task[t].pc = "outlinks"
       /\ task[t].redirects = 1
       /\ task[t].parses = 1
       /\ Cardinality(OwnedBy(t)) = 2
       /\ \A p \in OwnedBy(t) : files[p].archived /\ ~files[p].live /\ files[p].dels = 1

====
